---- MODULE Spec2Model ----
(***************************************************************************)
(* Model of riscv/optional.h: template<typename T> class Optional.         *)
(*                                                                         *)
(* A box is a presence flag plus raw storage for one T, embedded in the    *)
(* box.  The storage of a box either holds a live T (one that was          *)
(* placement-constructed there and whose destructor has not run) with its  *)
(* current value, or holds no object.  Two flags record what a destructor  *)
(* counting T would observe over the whole run: a T whose storage was      *)
(* reused or released without its destructor having run (leaked), and a    *)
(* destructor call on storage that holds no live T (doubled).              *)
(***************************************************************************)
EXTENDS Integers, Sequences, FiniteSets, TLC

\* ---------------------------------------------------------------- bounds
NumBoxes == 2      \* Optional<T> variables the client code declares
MaxVal   == 1      \* T takes the values 0..MaxVal

Boxes   == 1..NumBoxes
TValues == 0..MaxVal

VARIABLES
  life,            \* life[b]: box b is in scope (constructed, not destroyed)
  has_value_flag,  \* the presence flag of each box
  storage,         \* each box's storage: whether a live T is in it, its value
  leaked,          \* some T lost its storage without its destructor running
  doubled,         \* some destructor call hit storage holding no live T
  trace,           \* constructor/destructor calls made by the last operation
  last,            \* the last operation, its operands and its outcome
  copied           \* the copy just made, while only writes through value() followed

vars == <<life, has_value_flag, storage, leaked, doubled, trace, last, copied>>

\* The part of the state the member functions work on, with an empty call
\* trace at the start of each operation.
Cur == [has_value_flag |-> has_value_flag, storage |-> storage,
        leaked |-> leaked, doubled |-> doubled, trace |-> <<>>]

NoCopy == [src |-> 0, dst |-> 0]

\* ------------------------------------------------- T and the raw storage
\* storage in which no T is alive
Raw == [live |-> FALSE, val |-> 0]

Ctor(b, v) == [ev |-> "ctor", box |-> b, val |-> v]
Dtor(b, v) == [ev |-> "dtor", box |-> b, val |-> v]

\* new (&storage) T(v): a fresh T with value v now occupies b's storage; a T
\* that was still alive there is gone without its destructor having run
PlacementNew(s, b, v) ==
  [s EXCEPT !.leaked  = @ \/ s.storage[b].live,
            !.storage = [@ EXCEPT ![b] = [live |-> TRUE, val |-> v]],
            !.trace   = Append(@, Ctor(b, v))]

Throw(b, v) == [ev |-> "throw", box |-> b, val |-> v]

\* new (&storage) T(v) where T's constructor throws: no T is constructed
PlacementNewThrows(s, b, v) ==
  [s EXCEPT !.trace = Append(@, Throw(b, v))]

\* data(): the storage of b reinterpreted as a T
data(s, b) == s.storage[b]

\* *other.data(): the value read through the storage of b
DataVal(s, b) == data(s, b).val

\* data()->~T(): the destructor runs on the storage of b
DestroyT(s, b) ==
  [s EXCEPT !.doubled = @ \/ ~data(s, b).live,
            !.storage = [@ EXCEPT ![b] = Raw],
            !.trace   = Append(@, Dtor(b, DataVal(s, b)))]

\* T(std::move(x)): the source T stays constructed, with residue m
MovedFrom(s, o, m) ==
  [s EXCEPT !.storage = [@ EXCEPT ![o] = [@ EXCEPT !.val = m]]]

\* the storage of a box that comes into scope holds no T
FreshStorage(s, b) == [s EXCEPT !.storage = [@ EXCEPT ![b] = Raw]]

\* the storage of a box that goes out of scope is released as it is
ReleaseStorage(s, b) ==
  [s EXCEPT !.leaked  = @ \/ s.storage[b].live,
            !.storage = [@ EXCEPT ![b] = Raw]]

SetFlag(s, b, f) == [s EXCEPT !.has_value_flag = [@ EXCEPT ![b] = f]]

\* ------------------------------------------------------ member functions
\* reset() that runs the destructor but forgets to clear the flag
reset_keepflag(s, b) ==
  IF s.has_value_flag[b] THEN DestroyT(s, b) ELSE s

\* void reset()
reset(s, b) ==
  IF s.has_value_flag[b]
  THEN SetFlag(DestroyT(s, b), b, FALSE)
  ELSE s

\* bool has_value() const
has_value(s, b) == s.has_value_flag[b]

\* Optional() and Optional(NullOpt_t)
Optional_default(s, b) == SetFlag(FreshStorage(s, b), b, FALSE)
Optional_nullopt(s, b) == SetFlag(FreshStorage(s, b), b, FALSE)

\* a value constructor that constructs the T but leaves the flag clear
Optional_value_noflag(s, b, v) == PlacementNew(SetFlag(FreshStorage(s, b), b, FALSE), b, v)

\* Optional(const T& value) and Optional(T&& value)
Optional_value(s, b, v)  == PlacementNew(SetFlag(FreshStorage(s, b), b, TRUE), b, v)
Optional_rvalue(s, b, v) == PlacementNew(SetFlag(FreshStorage(s, b), b, TRUE), b, v)

\* make_optional(const T&) and make_optional(T&&): the returned box is
\* constructed from the value in the caller's variable
make_optional(s, b, v)        == Optional_value(s, b, v)
make_optional_rvalue(s, b, v) == Optional_rvalue(s, b, v)

\* a copy constructor that empties its source
Optional_copy_steal(s, b, o) ==
  LET s1 == SetFlag(FreshStorage(s, b), b, s.has_value_flag[o]) IN
  IF s.has_value_flag[o]
  THEN SetFlag(PlacementNew(s1, b, DataVal(s1, o)), o, FALSE)
  ELSE s1

\* Optional(const Optional& other)
Optional_copy(s, b, o) ==
  LET s1 == SetFlag(FreshStorage(s, b), b, s.has_value_flag[o]) IN
  IF s.has_value_flag[o] THEN PlacementNew(s1, b, DataVal(s1, o)) ELSE s1

\* Optional(Optional&& other) noexcept
Optional_move(s, b, o, m) ==
  LET s1 == SetFlag(FreshStorage(s, b), b, s.has_value_flag[o]) IN
  IF s.has_value_flag[o]
  THEN SetFlag(MovedFrom(PlacementNew(s1, b, DataVal(s1, o)), o, m), o, FALSE)
  ELSE s1

\* copy assignment without the this != &other guard
copy_assign_noguard(s, b, o) ==
  LET s1 == reset(s, b) IN
  IF s1.has_value_flag[o]
  THEN SetFlag(PlacementNew(s1, b, DataVal(s1, o)), b, TRUE)
  ELSE s1

\* copy assignment that releases the old value only when the source is occupied
copy_assign_stale(s, b, o) ==
  IF b # o /\ s.has_value_flag[o]
  THEN LET s1 == reset(s, b) IN SetFlag(PlacementNew(s1, b, DataVal(s1, o)), b, TRUE)
  ELSE s

\* Optional& operator=(const Optional& other)
copy_assign(s, b, o) ==
  IF b # o
  THEN LET s1 == reset(s, b) IN
       IF s1.has_value_flag[o]
       THEN SetFlag(PlacementNew(s1, b, DataVal(s1, o)), b, TRUE)
       ELSE s1
  ELSE s

\* move assignment that releases the old value only when the source is occupied
move_assign_stale(s, b, o, m) ==
  IF b # o /\ s.has_value_flag[o]
  THEN SetFlag(SetFlag(MovedFrom(PlacementNew(reset(s, b), b, DataVal(s, o)), o, m),
                       b, TRUE), o, FALSE)
  ELSE s

\* move assignment that leaves the source's flag set
move_assign_keepsrc(s, b, o, m) ==
  IF b # o
  THEN LET s1 == reset(s, b) IN
       IF s1.has_value_flag[o]
       THEN SetFlag(MovedFrom(PlacementNew(s1, b, DataVal(s1, o)), o, m), b, TRUE)
       ELSE s1
  ELSE s

\* move assignment that constructs over the old value without reset()
move_assign_noreset(s, b, o, m) ==
  IF b # o
  THEN IF s.has_value_flag[o]
       THEN SetFlag(SetFlag(MovedFrom(PlacementNew(s, b, DataVal(s, o)), o, m),
                            b, TRUE), o, FALSE)
       ELSE reset(s, b)
  ELSE s

\* Optional& operator=(Optional&& other) noexcept
move_assign(s, b, o, m) ==
  IF b # o
  THEN LET s1 == reset(s, b) IN
       IF s1.has_value_flag[o]
       THEN SetFlag(SetFlag(MovedFrom(PlacementNew(s1, b, DataVal(s1, o)), o, m),
                            b, TRUE), o, FALSE)
       ELSE s1
  ELSE s

\* copy assignment that sets the flag before it constructs the T
copy_assign_throw_flagfirst(s, b, o) ==
  IF b # o
  THEN LET s1 == reset(s, b) IN
       IF s1.has_value_flag[o]
       THEN PlacementNewThrows(SetFlag(s1, b, TRUE), b, DataVal(s1, o))
       ELSE s1
  ELSE s

\* Optional& operator=(const Optional& other) where T's copy constructor
\* throws: the statement after the placement new is not reached
copy_assign_throw(s, b, o) ==
  IF b # o
  THEN LET s1 == reset(s, b) IN
       IF s1.has_value_flag[o]
       THEN PlacementNewThrows(s1, b, DataVal(s1, o))
       ELSE s1
  ELSE s

\* Optional& operator=(Optional&& other) noexcept where T's move constructor
\* throws, leaving residue m in the source T: the statements after the
\* placement new are not reached
move_assign_throw(s, b, o, m) ==
  IF b # o
  THEN LET s1 == reset(s, b) IN
       IF s1.has_value_flag[o]
       THEN MovedFrom(PlacementNewThrows(s1, b, DataVal(s1, o)), o, m)
       ELSE s1
  ELSE s

\* Optional& operator=(NullOpt_t) noexcept
assign_nullopt(s, b) == reset(s, b)

\* a destructor that does not call reset()
Optional_dtor_noreset(s, b) == ReleaseStorage(SetFlag(s, b, FALSE), b)

\* ~Optional(): reset(), then the box and its storage go out of scope
Optional_dtor(s, b) == ReleaseStorage(reset(s, b), b)

\* value() without the presence check
value_nocheck(s, b) == [err |-> "", ref |-> b, val |-> DataVal(s, b)]

\* T& value(): the error outcome, or a reference into b's storage
value(s, b) ==
  IF ~s.has_value_flag[b]
  THEN [err |-> "Optional has no value", ref |-> 0, val |-> 0]
  ELSE [err |-> "", ref |-> b, val |-> DataVal(s, b)]

\* const T& value() const
value_const(s, b) ==
  IF ~s.has_value_flag[b]
  THEN [err |-> "Optional has no value", ref |-> 0, val |-> 0]
  ELSE [err |-> "", ref |-> b, val |-> DataVal(s, b)]

\* T& operator*() / const T& operator*() const
deref(s, b)       == value(s, b)
deref_const(s, b) == value_const(s, b)

\* the outcome of a call that returns something: the box state it leaves
\* and what it returns
Returns(s, r) == [st |-> s, ret |-> [err |-> "", ref |-> 0, val |-> r]]

\* value_or that hands out the default although a value is present
value_or_default(s, b, d) == Returns(s, d)

\* T value_or(const T& default_value) const
value_or(s, b, d) ==
  Returns(s, IF s.has_value_flag[b] THEN DataVal(s, b) ELSE d)

\* explicit operator bool() const noexcept
operator_bool(s, b) == Returns(s, s.has_value_flag[b])

\* operator== that reports the flag instead of its negation
eq_nullopt_flag(s, b) == Returns(s, s.has_value_flag[b])

\* operator== written as an assignment of NullOpt
eq_nullopt_assign(s, b) == Returns(assign_nullopt(s, b), ~s.has_value_flag[b])

\* bool operator==(const NullOpt_t&) const noexcept
eq_nullopt(s, b) == Returns(s, ~s.has_value_flag[b])

\* bool operator!=(const NullOpt_t&) const noexcept
ne_nullopt(s, b) == Returns(s, s.has_value_flag[b])

\* operator-> with the presence check of value()
arrow_checked(s, b) == [st |-> s, ret |-> value(s, b)]

\* T* operator->(): the address of b's storage and what lies there
arrow(s, b) ==
  [st |-> s, ret |-> [err |-> "", ref |-> b, val |-> DataVal(s, b)]]

\* const T* operator->() const
arrow_const(s, b) ==
  [st |-> s, ret |-> [err |-> "", ref |-> b, val |-> DataVal(s, b)]]

Queries  == {"has_value", "operator_bool", "eq_nullopt", "ne_nullopt"}
ArrowOps == {"arrow", "arrow_const"}

CallQuery(k, s, b) ==
  CASE k = "has_value"     -> Returns(s, has_value(s, b))
    [] k = "operator_bool" -> operator_bool(s, b)
    [] k = "eq_nullopt"    -> eq_nullopt(s, b)
    [] k = "ne_nullopt"    -> ne_nullopt(s, b)
    [] k = "arrow"         -> arrow(s, b)
    [] k = "arrow_const"   -> arrow_const(s, b)

Accessors == {"value", "value_const", "deref", "deref_const"}

CallAccessor(k, s, b) ==
  CASE k = "value"       -> value(s, b)
    [] k = "value_const" -> value_const(s, b)
    [] k = "deref"       -> deref(s, b)
    [] k = "deref_const" -> deref_const(s, b)

\* ------------------------------------------------------------ the machine
Commit(s) ==
  /\ has_value_flag' = s.has_value_flag
  /\ storage' = s.storage
  /\ leaked' = s.leaked
  /\ doubled' = s.doubled
  /\ trace' = s.trace

NoRet == [err |-> "", ref |-> 0, val |-> 0]

Op(name, b, o) == [op |-> name, self |-> b, other |-> o, arg |-> 0, ret |-> NoRet]

\* what the caller of an assignment sees when T's constructor throws: the
\* exception, or std::terminate when it leaves a noexcept function
TFailed    == "T constructor threw"
Terminated == "std::terminate"

\* the program has not been terminated
Running == last.ret.err # Terminated

Init ==
  /\ life = [b \in Boxes |-> FALSE]
  /\ has_value_flag = [b \in Boxes |-> FALSE]
  /\ storage = [b \in Boxes |-> Raw]
  /\ leaked = FALSE
  /\ doubled = FALSE
  /\ trace = <<>>
  /\ last = Op("init", 0, 0)
  /\ copied = NoCopy

\* Optional<T> b;
ConstructDefault(b) ==
  /\ Running
  /\ ~life[b]
  /\ life' = [life EXCEPT ![b] = TRUE]
  /\ Commit(Optional_default(Cur, b))
  /\ last' = Op("Optional_default", b, 0)
  /\ copied' = NoCopy

\* Optional<T> b(NullOpt);
ConstructNullOpt(b) ==
  /\ Running
  /\ ~life[b]
  /\ life' = [life EXCEPT ![b] = TRUE]
  /\ Commit(Optional_nullopt(Cur, b))
  /\ last' = Op("Optional_nullopt", b, 0)
  /\ copied' = NoCopy

\* Optional<T> b(v);
ConstructValue(b, v) ==
  /\ Running
  /\ ~life[b]
  /\ life' = [life EXCEPT ![b] = TRUE]
  /\ Commit(Optional_value(Cur, b, v))
  /\ last' = [Op("Optional_value", b, 0) EXCEPT !.arg = v]
  /\ copied' = NoCopy

\* Optional<T> b(std::move(v));
ConstructRvalue(b, v) ==
  /\ Running
  /\ ~life[b]
  /\ life' = [life EXCEPT ![b] = TRUE]
  /\ Commit(Optional_rvalue(Cur, b, v))
  /\ last' = [Op("Optional_rvalue", b, 0) EXCEPT !.arg = v]
  /\ copied' = NoCopy

\* auto b = make_optional(v);
MakeOptional(b, v) ==
  /\ Running
  /\ ~life[b]
  /\ life' = [life EXCEPT ![b] = TRUE]
  /\ Commit(make_optional(Cur, b, v))
  /\ last' = [Op("make_optional", b, 0) EXCEPT !.arg = v]
  /\ copied' = NoCopy

\* auto b = make_optional(std::move(v));
MakeOptionalRvalue(b, v) ==
  /\ Running
  /\ ~life[b]
  /\ life' = [life EXCEPT ![b] = TRUE]
  /\ Commit(make_optional_rvalue(Cur, b, v))
  /\ last' = [Op("make_optional_rvalue", b, 0) EXCEPT !.arg = v]
  /\ copied' = NoCopy

\* Optional<T> b(o);
ConstructCopy(b, o) ==
  /\ Running
  /\ ~life[b] /\ life[o]
  /\ life' = [life EXCEPT ![b] = TRUE]
  /\ Commit(Optional_copy(Cur, b, o))
  /\ last' = Op("Optional_copy", b, o)
  /\ copied' = IF has_value_flag[o] THEN [src |-> o, dst |-> b] ELSE NoCopy

\* Optional<T> b(std::move(o));
ConstructMove(b, o) ==
  /\ Running
  /\ ~life[b] /\ life[o]
  /\ \E m \in TValues :
       Commit(Optional_move(Cur, b, o, IF has_value_flag[o] THEN m ELSE 0))
  /\ life' = [life EXCEPT ![b] = TRUE]
  /\ last' = Op("Optional_move", b, o)
  /\ copied' = NoCopy

\* b = o;
CopyAssign(b, o) ==
  /\ Running
  /\ life[b] /\ life[o]
  /\ Commit(copy_assign(Cur, b, o))
  /\ last' = Op("copy_assign", b, o)
  /\ copied' = IF b # o /\ has_value_flag[o] THEN [src |-> o, dst |-> b] ELSE NoCopy
  /\ UNCHANGED life

\* b = std::move(o);
MoveAssign(b, o) ==
  /\ Running
  /\ life[b] /\ life[o]
  /\ \E m \in TValues :
       Commit(move_assign(Cur, b, o, IF b # o /\ has_value_flag[o] THEN m ELSE 0))
  /\ last' = Op("move_assign", b, o)
  /\ copied' = NoCopy
  /\ UNCHANGED life

\* b = o;  with a T whose copy constructor throws
CopyAssignThrow(b, o) ==
  /\ Running
  /\ life[b] /\ life[o]
  /\ b # o /\ has_value_flag[o]
  /\ Commit(copy_assign_throw(Cur, b, o))
  /\ last' = [Op("copy_assign_throw", b, o) EXCEPT !.ret.err = TFailed]
  /\ copied' = NoCopy
  /\ UNCHANGED life

\* b = std::move(o);  with a T whose move constructor throws
MoveAssignThrow(b, o) ==
  /\ Running
  /\ life[b] /\ life[o]
  /\ b # o /\ has_value_flag[o]
  /\ \E m \in TValues : Commit(move_assign_throw(Cur, b, o, m))
  /\ last' = [Op("move_assign_throw", b, o) EXCEPT !.ret.err = Terminated]
  /\ copied' = NoCopy
  /\ UNCHANGED life

\* b = NullOpt;
AssignNullOpt(b) ==
  /\ Running
  /\ life[b]
  /\ Commit(assign_nullopt(Cur, b))
  /\ last' = Op("assign_nullopt", b, 0)
  /\ copied' = NoCopy
  /\ UNCHANGED life

\* b.reset();
Reset(b) ==
  /\ Running
  /\ life[b]
  /\ Commit(reset(Cur, b))
  /\ last' = Op("reset", b, 0)
  /\ copied' = NoCopy
  /\ UNCHANGED life

\* b goes out of scope
Destroy(b) ==
  /\ Running
  /\ life[b]
  /\ Commit(Optional_dtor(Cur, b))
  /\ life' = [life EXCEPT ![b] = FALSE]
  /\ last' = Op("Optional_dtor", b, 0)
  /\ copied' = NoCopy

\* b.value(), *b, on a mutable or a const box
Access(b, k) ==
  /\ Running
  /\ life[b]
  /\ Commit(Cur)
  /\ last' = [Op(k, b, 0) EXCEPT !.ret = CallAccessor(k, Cur, b)]
  /\ copied' = NoCopy
  /\ UNCHANGED life

\* b.value() = v;  the client writes the contained T through the reference
Mutate(b, v) ==
  /\ Running
  /\ life[b]
  /\ LET r == value(Cur, b) IN
       /\ last' = [Op("mutate", b, 0) EXCEPT !.arg = v, !.ret = r]
       /\ IF r.err = ""
          THEN Commit([Cur EXCEPT !.storage = [@ EXCEPT ![r.ref] = [@ EXCEPT !.val = v]]])
          ELSE Commit(Cur)
  /\ UNCHANGED <<life, copied>>

\* b.value_or(d)
ValueOr(b, d) ==
  /\ Running
  /\ life[b]
  /\ LET r == value_or(Cur, b, d) IN
       /\ Commit(r.st)
       /\ last' = [Op("value_or", b, 0) EXCEPT !.arg = d, !.ret = r.ret]
  /\ copied' = NoCopy
  /\ UNCHANGED life

\* b.has_value(), bool(b), b == NullOpt, b != NullOpt, b.operator->()
Query(b, k) ==
  /\ Running
  /\ life[b]
  /\ LET r == CallQuery(k, Cur, b) IN
       /\ Commit(r.st)
       /\ last' = [Op(k, b, 0) EXCEPT !.ret = r.ret]
  /\ copied' = NoCopy
  /\ UNCHANGED life

Next ==
  \/ \E b \in Boxes : ConstructDefault(b)
  \/ \E b \in Boxes : ConstructNullOpt(b)
  \/ \E b \in Boxes, v \in TValues : ConstructValue(b, v)
  \/ \E b \in Boxes, v \in TValues : ConstructRvalue(b, v)
  \/ \E b \in Boxes, v \in TValues : MakeOptional(b, v)
  \/ \E b \in Boxes, v \in TValues : MakeOptionalRvalue(b, v)
  \/ \E b, o \in Boxes : ConstructCopy(b, o)
  \/ \E b, o \in Boxes : ConstructMove(b, o)
  \/ \E b, o \in Boxes : CopyAssign(b, o)
  \/ \E b, o \in Boxes : MoveAssign(b, o)
  \/ \E b, o \in Boxes : CopyAssignThrow(b, o)
  \/ \E b, o \in Boxes : MoveAssignThrow(b, o)
  \/ \E b \in Boxes : AssignNullOpt(b)
  \/ \E b \in Boxes : Reset(b)
  \/ \E b \in Boxes : Destroy(b)
  \/ \E b \in Boxes, k \in Accessors : Access(b, k)
  \/ \E b \in Boxes, v \in TValues : Mutate(b, v)
  \/ \E b \in Boxes, d \in TValues : ValueOr(b, d)
  \/ \E b \in Boxes, k \in Queries \cup ArrowOps : Query(b, k)

Spec == Init /\ [][Next]_vars

TypeOK ==
  /\ life \in [Boxes -> BOOLEAN]
  /\ has_value_flag \in [Boxes -> BOOLEAN]
  /\ storage \in [Boxes -> [live : BOOLEAN, val : TValues]]
  /\ leaked \in BOOLEAN /\ doubled \in BOOLEAN

\* --------------------------------------------------- notions of the claims
\* the value read through box b's storage in the current state
BoxVal(b) == DataVal(Cur, b)

\* the value read through box b's storage after the step
BoxValNext(b) == DataVal(Cur', b)

\* b's storage holds a T that was constructed there and not yet destroyed
HoldsLive(b) == storage[b].live

CopyOps   == {"Optional_copy", "copy_assign"}
MoveOps   == {"Optional_move", "move_assign"}
AssignOps == {"copy_assign", "move_assign"}
ClearOps  == {"reset", "assign_nullopt"}
ThrowOps  == {"copy_assign_throw", "move_assign_throw"}

\* the operations that hand their other operand to T's move constructor
MoveSourceOps == MoveOps \cup {"move_assign_throw"}

\* the step leaves every box's flag and storage alone
BoxesUnchanged == UNCHANGED <<has_value_flag, storage>>

\* the step leaves the presence and the contained value of box b alone
Untouched(b) ==
  /\ has_value_flag'[b] = has_value_flag[b]
  /\ has_value_flag[b] => storage'[b] = storage[b]

\* C1: in every reachable state, each box in scope has its presence flag set
\* exactly when its storage holds a live T (constructed there, destructor not
\* yet run), the moved-from source of a move included.
FlagIffLive_C1 ==
  \A b \in Boxes : life[b] => (has_value_flag[b] <=> HoldsLive(b))

\* C2: once every box has been destroyed, each T ever constructed in some
\* box's storage has had its destructor run exactly once: none lost its
\* storage undestroyed and no destructor ran on storage without a live T.
NoLeakNoDouble_C2 ==
  (\A b \in Boxes : ~life[b]) => (~leaked /\ ~doubled)

\* C3: value() and operator*, mutable or const, on an empty box end in the
\* "Optional has no value" error, return no reference and change nothing; on
\* an occupied box they return the contained value without error.
CheckedAccess_C3 ==
  [][last'.op \in Accessors =>
       LET b == last'.self  r == last'.ret IN
       /\ BoxesUnchanged /\ trace' = <<>> /\ UNCHANGED life
       /\ ~has_value_flag[b] => r.err = "Optional has no value" /\ r.ref = 0
       /\ has_value_flag[b] =>
            r.err = "" /\ r.ref = b /\ r.val = storage[b].val]_vars

Witness_C3 ==
  /\ last.op = "deref_const"
  /\ ~has_value_flag[last.self]
  /\ last.ret.err = "Optional has no value"

\* C4: move-construction and move-assignment from an occupied source A into
\* a distinct target B leave B occupied with A's original value and A empty.
MoveTransfers_C4 ==
  [][(last'.op \in MoveOps /\ last'.self # last'.other
        /\ has_value_flag[last'.other]) =>
       LET b == last'.self  a == last'.other IN
       /\ has_value_flag'[b]
       /\ storage'[b].live
       /\ BoxValNext(b) = BoxVal(a)
       /\ ~has_value(Cur', a)]_vars

Witness_C4 ==
  /\ last.op = "move_assign" /\ last.self # last.other
  /\ Len(trace) = 2
  /\ has_value_flag[last.self] /\ ~has_value_flag[last.other]

\* C5: copy- or move-assigning a box to itself, empty or occupied, changes
\* neither its flag nor its value and constructs and destroys no T.
SelfAssignNoOp_C5 ==
  [][(last'.op \in AssignOps /\ last'.self = last'.other) =>
       BoxesUnchanged /\ trace' = <<>>]_vars

Witness_C5 ==
  /\ last.op = "move_assign" /\ last.self = last.other
  /\ has_value_flag[last.self]

\* C6: assigning an occupied box over a distinct occupied box destroys the
\* target's old value exactly once, before the new value is constructed in
\* the target's storage, and the target ends occupied with the source's value.
AssignOverOccupied_C6 ==
  [][(last'.op \in AssignOps /\ last'.self # last'.other
        /\ has_value_flag[last'.self] /\ has_value_flag[last'.other]) =>
       LET b == last'.self  a == last'.other IN
       /\ trace' = <<Dtor(b, BoxVal(b)), Ctor(b, BoxVal(a))>>
       /\ leaked' = leaked /\ doubled' = doubled
       /\ has_value_flag'[b]
       /\ storage'[b] = [live |-> TRUE, val |-> BoxVal(a)]]_vars

Witness_C6 ==
  /\ last.op = "copy_assign" /\ last.self # last.other
  /\ Len(trace) = 2 /\ trace[1].ev = "dtor" /\ trace[2].ev = "ctor"
  /\ has_value_flag[last.self] /\ has_value_flag[last.other]

\* C7: reset() and assignment from NullOpt have the same effect: an occupied
\* box has its value destroyed exactly once and becomes empty, an empty box
\* is left as it is with nothing destroyed; doing it twice equals doing it once.
ClearEffect_C7 ==
  [][last'.op \in ClearOps =>
       LET b == last'.self IN
       /\ assign_nullopt(Cur, b) = reset(Cur, b)
       /\ reset(reset(Cur, b), b) = reset(Cur, b)
       /\ assign_nullopt(assign_nullopt(Cur, b), b) = assign_nullopt(Cur, b)
       /\ ~has_value_flag'[b]
       /\ \A c \in Boxes \ {b} :
            has_value_flag'[c] = has_value_flag[c] /\ storage'[c] = storage[c]
       /\ leaked' = leaked /\ doubled' = doubled
       /\ IF has_value_flag[b]
          THEN trace' = <<Dtor(b, BoxVal(b))>> /\ storage'[b] = Raw
          ELSE trace' = <<>> /\ storage'[b] = storage[b]]_vars

Witness_C7 ==
  /\ last.op = "assign_nullopt"
  /\ Len(trace) = 1 /\ trace[1].ev = "dtor" /\ trace[1].box = last.self
  /\ ~has_value_flag[last.self]

\* C8: the destructor of a box destroys the contained value exactly once
\* when the box is occupied at that moment and destroys nothing when it is
\* empty, whatever happened to the box before.
DtorDestroysOnce_C8 ==
  [][last'.op = "Optional_dtor" =>
       LET b == last'.self IN
       /\ ~life'[b] /\ ~has_value_flag'[b]
       /\ doubled' = doubled
       /\ IF has_value_flag[b]
          THEN trace' = <<Dtor(b, BoxVal(b))>>
          ELSE trace' = <<>>]_vars

Witness_C8 ==
  /\ last.op = "Optional_dtor"
  /\ Len(trace) = 1 /\ trace[1].ev = "dtor" /\ trace[1].box = last.self

\* C9: a copy leaves its source unmodified, and an operation applied to a
\* box A (mutation, clear, reassignment, destruction) leaves the presence and
\* value of every other box B unchanged, a box A was copied into or from
\* included (an operation that takes B as the source of a move is an
\* operation on B too).
CopyIndependence_C9 ==
  [][/\ (last'.op \in CopyOps /\ last'.self # last'.other) =>
          Untouched(last'.other) /\ storage'[last'.other] = storage[last'.other]
     /\ \A a \in Boxes : \A b \in Boxes \ {a} :
          (last'.self = a /\ ~(last'.op \in MoveSourceOps /\ last'.other = b))
             => Untouched(b)]_vars

Witness_C9 ==
  /\ copied.src # 0
  /\ last.op = "mutate" /\ last.self = copied.src /\ last.ret.err = ""
  /\ has_value_flag[copied.src] /\ has_value_flag[copied.dst]
  /\ BoxVal(copied.src) # BoxVal(copied.dst)

\* C10: copy-assignment from a distinct source releases the target's value
\* first and leaves no stale value: the target's presence equals the
\* source's, its value equals the source's when occupied, and an empty
\* source over an occupied target destroys the target's value exactly once.
CopyAssignNoStale_C10 ==
  [][(last'.op = "copy_assign" /\ last'.self # last'.other) =>
       LET b == last'.self  a == last'.other IN
       /\ has_value_flag'[b] = has_value_flag[a]
       /\ has_value_flag[a] => storage'[b] = [live |-> TRUE, val |-> BoxVal(a)]
       /\ has_value_flag[b] => trace'[1] = Dtor(b, BoxVal(b))
       /\ doubled' = doubled
       /\ (has_value_flag[b] /\ ~has_value_flag[a]) =>
            /\ trace' = <<Dtor(b, BoxVal(b))>>
            /\ ~has_value_flag'[b] /\ storage'[b] = Raw
       /\ ~has_value_flag[b] =>
            \A i \in 1..Len(trace') : trace'[i].ev # "dtor"]_vars

Witness_C10 ==
  /\ last.op = "copy_assign" /\ last.self # last.other
  /\ Len(trace) = 1 /\ trace[1].ev = "dtor" /\ trace[1].box = last.self
  /\ ~has_value_flag[last.self] /\ ~has_value_flag[last.other]

\* box b goes from occupied to empty in this step
Emptied(b) == has_value_flag[b] /\ ~has_value_flag'[b]

\* the step is a clear, a NullOpt assignment or the destruction of b, or a
\* move that takes b as its source
ClearedOrMovedOut(b) ==
  \/ last'.op \in ClearOps \cup {"Optional_dtor"} /\ last'.self = b
  \/ last'.op \in MoveOps /\ last'.other = b /\ last'.self # b

\* C11 (as claimed): a box goes from occupied to empty only through reset,
\* assignment from NullOpt, its destruction, or being the source of a move;
\* no copy- or move-assignment into the box empties it.
OnlyClearEmpties_C11 ==
  [][\A b \in Boxes : Emptied(b) => ClearedOrMovedOut(b)]_vars

\* C11 (amended): a box goes from occupied to empty only through reset,
\* assignment from NullOpt, its destruction, being the source of a move, or
\* a copy- or move-assignment into it from a distinct source that is empty
\* or whose T fails to construct; an assignment that installs the value of
\* an occupied source, and an assignment from itself, never empties it.
EmptiedOnlyBy_C11 ==
  [][\A b \in Boxes :
       /\ Emptied(b) =>
            \/ ClearedOrMovedOut(b)
            \/ /\ last'.op \in AssignOps /\ last'.self = b /\ last'.other # b
               /\ ~has_value_flag[last'.other]
            \/ last'.op \in ThrowOps /\ last'.self = b /\ last'.other # b
       /\ (last'.op \in AssignOps /\ last'.self = b
             /\ (last'.other = b \/ has_value_flag[last'.other]))
            => ~Emptied(b)]_vars

Witness_C11 ==
  /\ last.op = "Optional_move"
  /\ trace = <<Ctor(last.self, BoxVal(last.self))>>
  /\ has_value_flag[last.self] /\ ~has_value_flag[last.other]
  /\ storage[last.other].live

\* C12: move-construction from an empty box yields an empty box and leaves
\* the source empty and as it was; move-assignment from an empty source into
\* a distinct target destroys the value the target held exactly once (none if
\* it held none) and leaves target and source empty.
MoveFromEmpty_C12 ==
  [][(last'.op \in MoveOps /\ last'.self # last'.other
        /\ ~has_value_flag[last'.other]) =>
       LET b == last'.self  a == last'.other IN
       /\ ~has_value_flag'[b] /\ ~has_value_flag'[a]
       /\ storage'[a] = storage[a]
       /\ leaked' = leaked /\ doubled' = doubled
       /\ IF last'.op = "move_assign" /\ has_value_flag[b]
          THEN trace' = <<Dtor(b, BoxVal(b))>> /\ storage'[b] = Raw
          ELSE trace' = <<>>]_vars

Witness_C12 ==
  /\ last.op = "move_assign" /\ last.self # last.other
  /\ Len(trace) = 1 /\ trace[1] = Dtor(last.self, trace[1].val)
  /\ ~has_value_flag[last.self] /\ ~has_value_flag[last.other]
  /\ ~storage[last.self].live

\* C13: value_or(d) returns d when the box is empty and the contained value,
\* whatever d is, when the box is occupied; it raises nothing and leaves the
\* box's presence and value unchanged.
ValueOr_C13 ==
  [][last'.op = "value_or" =>
       LET b == last'.self  r == last'.ret IN
       /\ r.err = ""
       /\ ~has_value_flag[b] => r.val = last'.arg
       /\ has_value_flag[b] => r.val = BoxVal(b)
       /\ BoxesUnchanged /\ trace' = <<>> /\ UNCHANGED life]_vars

Witness_C13 ==
  /\ last.op = "value_or"
  /\ has_value_flag[last.self]
  /\ last.arg # BoxVal(last.self)
  /\ last.ret.val = BoxVal(last.self)

ValueCtorOps == {"Optional_value", "Optional_rvalue", "make_optional", "make_optional_rvalue"}

\* C14: a box constructed from a value v, by the copying or the moving value
\* constructor or through make_optional by copy or by move, reports occupied
\* and its checked accessors return v.
FromValue_C14 ==
  [][last'.op \in ValueCtorOps =>
       LET b == last'.self  v == last'.arg IN
       /\ life'[b]
       /\ has_value(Cur', b)
       /\ \A k \in Accessors :
            CallAccessor(k, Cur', b) = [err |-> "", ref |-> b, val |-> v]
       /\ trace' = <<Ctor(b, v)>>]_vars

Witness_C14 ==
  /\ last.op = "make_optional_rvalue" /\ last.arg # 0
  /\ has_value_flag[last.self]
  /\ value(Cur, last.self).val = last.arg

\* C15: a default-constructed box and a box constructed from NullOpt report
\* empty and compare equal to NullOpt; and in every state of every box,
\* == NullOpt is true exactly when has_value() is false, != NullOpt exactly
\* when it is true, and the bool conversion agrees with has_value().
EmptyMarker_C15 ==
  /\ [](\A b \in Boxes : life[b] =>
          /\ eq_nullopt(Cur, b).ret.val = ~has_value(Cur, b)
          /\ ne_nullopt(Cur, b).ret.val = has_value(Cur, b)
          /\ operator_bool(Cur, b).ret.val = has_value(Cur, b))
  /\ [][/\ last'.op \in {"Optional_default", "Optional_nullopt"} =>
             /\ ~has_value(Cur', last'.self)
             /\ eq_nullopt(Cur', last'.self).ret.val = TRUE
             /\ trace' = <<>>
        /\ last'.op \in Queries =>
             last'.ret.val = (IF last'.op = "eq_nullopt"
                              THEN ~has_value_flag[last'.self]
                              ELSE has_value_flag[last'.self])]_vars

Witness_C15 ==
  /\ last.op = "eq_nullopt" /\ last.ret.val = TRUE
  /\ ~has_value_flag[last.self] /\ storage[last.self] = Raw

Observers == Queries \cup ArrowOps \cup Accessors \cup {"value_or"}

\* C16: has_value(), the bool conversion, value(), operator*, operator->,
\* value_or and the comparisons with NullOpt, whether they return or raise,
\* leave every presence flag and every storage as it was and construct and
\* destroy no T.
NoSideEffects_C16 ==
  [][last'.op \in Observers =>
       /\ BoxesUnchanged /\ UNCHANGED <<life, leaked, doubled>>
       /\ trace' = <<>>]_vars

Witness_C16 ==
  /\ last.op = "operator_bool" /\ last.ret.val = TRUE
  /\ has_value_flag[last.self] /\ storage[last.self].live

\* C17: operator->, mutable or const, makes no presence check: on an empty
\* box it returns the address of the storage and raises nothing where
\* value() and operator* raise; on an occupied box it designates the same
\* contained value as value().
ArrowUnchecked_C17 ==
  [][last'.op \in ArrowOps =>
       LET b == last'.self  r == last'.ret IN
       /\ r.err = "" /\ r.ref = b
       /\ ~has_value_flag[b] =>
            \A k \in Accessors : CallAccessor(k, Cur, b).err = "Optional has no value"
       /\ has_value_flag[b] =>
            \A k \in Accessors : CallAccessor(k, Cur, b) = r]_vars

Witness_C17 ==
  /\ last.op = "arrow" /\ ~has_value_flag[last.self]
  /\ last.ret.err = "" /\ last.ret.ref = last.self
  /\ value(Cur, last.self).err = "Optional has no value"

\* what a failed construction of T during an assignment into b does to b:
\* its old value was destroyed exactly once, before the failed construction,
\* its flag is clear and no T is in its storage under a set flag
TargetLeftEmpty(b, a) ==
  /\ ~has_value_flag'[b]
  /\ trace' = (IF has_value_flag[b] THEN <<Dtor(b, BoxVal(b))>> ELSE <<>>)
                \o <<Throw(b, BoxVal(a))>>
  /\ has_value_flag[b] => storage'[b] = Raw
  /\ ~has_value_flag[b] => storage'[b] = storage[b]
  /\ doubled' = doubled /\ leaked' = leaked
  /\ \A c \in Boxes : life'[c] /\ has_value_flag'[c] => storage'[c].live

\* C18 (as claimed): when T's copy or move construction fails during copy-
\* or move-assignment into a distinct target, the target is left empty with
\* its old value destroyed exactly once and its flag false, and the source
\* keeps its presence flag and its value.
FailedAssign_C18 ==
  [][last'.op \in ThrowOps =>
       LET b == last'.self  a == last'.other IN
       /\ TargetLeftEmpty(b, a)
       /\ has_value_flag'[a] /\ storage'[a] = storage[a]]_vars

\* C18 (amended): the target is left as claimed and the source keeps its
\* presence flag; the source keeps its value when the copy construction
\* failed, while after a failed move construction the source T stays alive
\* with whatever value T's move constructor left in it; the failure reaches
\* the caller of copy-assignment, and ends the program in the noexcept
\* move-assignment.
FailedAssignSource_C18 ==
  [][/\ last'.op \in ThrowOps =>
          LET b == last'.self  a == last'.other IN
          /\ TargetLeftEmpty(b, a)
          /\ has_value_flag'[a] /\ storage'[a].live
          /\ last'.op = "copy_assign_throw" =>
               storage'[a] = storage[a] /\ last'.ret.err = TFailed
          /\ last'.op = "move_assign_throw" => last'.ret.err = Terminated
     /\ Running]_vars

Witness_C18 ==
  /\ last.op = "move_assign_throw" /\ ~Running
  /\ Len(trace) = 2
  /\ trace = <<Dtor(last.self, trace[1].val), Throw(last.self, trace[2].val)>>
  /\ ~has_value_flag[last.self] /\ storage[last.self] = Raw
  /\ has_value_flag[last.other] /\ BoxVal(last.other) # trace[2].val
====
